---- MODULE Spec2Model ----
(***************************************************************************)
(* A model of RunLLM/generate-docs:                                        *)
(*   scripts/generate_docs.py   _partition_diff_by_file_name, update_docs, *)
(*                              _get_or_create_repo_id, _git_diff,         *)
(*                              _git_add and the tail of the CLI driver    *)
(*   scripts/client.py          RunLLMClient (every call may answer with a *)
(*                              status other than 200)                     *)
(*   scripts/mark_run_completed.py                                         *)
(*                                                                         *)
(* Spec           one execution of update_docs, followed by the driver's   *)
(*                write of AUTODOC_RUN_ID and by mark_run_completed.       *)
(* SpecPartition  one execution of _partition_diff_by_file_name, a line of *)
(*                the input per step.                                      *)
(***************************************************************************)
EXTENDS Integers, Sequences, FiniteSets, TLC

(***************************************************************************)
(* Bounds of the model.                                                    *)
(***************************************************************************)
\* the largest number of paths in diff_by_file_path
MaxFiles == 2
\* the largest number of repositories in a listing
MaxRepos == 2
\* the largest number of lines of a diff handed to the partitioner
MaxLines == 4

(***************************************************************************)
(* Values.                                                                 *)
(***************************************************************************)
INLINE == "inline"
OPENAPI == "openapi"

\* Python's None, where a path or a name is expected
None == "<None>"
\* a file that does not exist
Absent == "<absent>"
\* what open(path, "w") leaves in a file before anything is written
Truncated == ""
\* what a write that stops part way leaves of a content: its first character
FirstPart == "c"

Paths == {"a.py", "b.py", "c.py"}
SpecPath == "openapi.yaml"
\* the sources that may also be given as the spec file
SourceSpecPaths == {"a.py"}
PrBody == "pr-body.txt"
AllFiles == Paths \cup {SpecPath, PrBody}
Contents == {"c0", "c1"}
\* a token count, an int of any size: the integer n + e311 * 10^311
Tokens(n, k) == [n |-> n, e311 |-> k]
NoTokens == Tokens(0, 0)
Plus(a, b) == Tokens(a.n + b.n, a.e311 + b.e311)
\* the tokens_used of an answer: 1, 10^311 and 2 * 10^311
TokenCounts == {Tokens(1, 0), Tokens(0, 1), Tokens(0, 2)}
\* lines 22-23: total_tokens / 1000 raises OverflowError when the quotient
\* is more than a float holds (about 1.8 * 10^308)
CalculateCostRaises(t) == t.e311 >= 2
\* the status codes a call of the client is tried on
StatusCodes == {200, 201, 500}
\* the status codes the service answers update_docs and mark_run_completed with
AnswerCodes == {200, 500}
RunIds == {10}
RepoIds == {1, 2}
CreatedRepoIds == {3}
RepoName == "me/repo"
RepoNames == {RepoName, "me/repo2"}

Range(s) == {s[k] : k \in 1..Len(s)}

\* the sequences over S of length at most n
RECURSIVE SeqsUpTo(_, _)
SeqsUpTo(S, n) ==
  IF n = 0 THEN {<<>>}
  ELSE LET shorter == SeqsUpTo(S, n - 1)
       IN shorter \cup {Append(s, x) : s \in {t \in shorter : Len(t) = n - 1}, x \in S}

\* the sequences of pairwise distinct elements of S of length at most n
DistinctSeqs(S, n) == {s \in SeqsUpTo(S, n) : Cardinality(Range(s)) = Len(s)}

(***************************************************************************)
(* Errors.  An exception is its message and the exception that was being   *)
(* handled when it was raised (Python's __context__).                      *)
(***************************************************************************)
NoMsg == [kind |-> "none", op |-> "none", path |-> None, status |-> 0]
\* _check_for_error's message: the status code and the response (of the call op)
TransportMsg(op, path, status) ==
  [kind |-> "transport", op |-> op, path |-> path, status |-> status]
\* an OSError of open/read/write, or a git command's non-zero return code
LocalMsg(op, path) == [kind |-> "local", op |-> op, path |-> path, status |-> 0]
\* a 200 answer that cannot be parsed: pydantic's ValidationError for JSON
\* of the expected shape whose fields the response model rejects, TypeError
\* for JSON of another shape (Model(**x) on an x that is no mapping, or a
\* loop over an x that is no list), JSONDecodeError for a body that is no JSON
\* RecursionError is what the JSON parser raises on a body nested too deep.
RecursionMsg(op, path) ==
  [kind |-> "RecursionError", op |-> op, path |-> path, status |-> 200]
\* ValueError is what the JSON parser raises on an integer of more than 4300 digits.
ValueErrorMsg(op, path) ==
  [kind |-> "ValueError", op |-> op, path |-> path, status |-> 200]
\* OverflowError of calculate_cost, in the print of the tokens of path
OverflowMsg(path) ==
  [kind |-> "OverflowError", op |-> "calculate_cost", path |-> path, status |-> 0]
TypeErrorMsg(op, path) ==
  [kind |-> "TypeError", op |-> op, path |-> path, status |-> 200]
ValidationMsg(op, path) ==
  [kind |-> "ValidationError", op |-> op, path |-> path, status |-> 200]
JSONDecodeMsg(op, path) ==
  [kind |-> "JSONDecodeError", op |-> op, path |-> path, status |-> 200]
\* the exception the JSON parser was handling when it raised JSONDecodeError
ParserMsg == [kind |-> "parser", op |-> "json", path |-> None, status |-> 0]
NoExc == [msg |-> NoMsg, context |-> NoMsg]
NewExc(m) ==
  [msg |-> m, context |-> IF m.kind = "JSONDecodeError" THEN ParserMsg ELSE NoMsg]
\* the OSError of close(), raised while the OSError of the write is handled
ExcAtClose(m) == [msg |-> m, context |-> m]

(***************************************************************************)
(* The state.                                                              *)
(***************************************************************************)
VARIABLES
  \* update_docs: its arguments
  mode,                        \* AutodocOutputMode
  diff_by_file_path,           \* the keys of the dict, in insertion order
  openapi_spec,                \* the spec file's path, or None
  \* update_docs: its locals
  pc,                          \* the statement about to run
  openapi_spec_already_exists,
  repo_id,
  repos,                       \* the listing _get_or_create_repo_id holds
  autodoc_run,                 \* RegisterAutodocRunResponse
  total_token_count,
  file_idx,                    \* the position of the for loop in the keys
  file_content,
  doc_resp,                    \* GenerateAutodocResponse
  diff,                        \* what git diff printed: the changed paths
  resp,                        \* ExplainAutodocResponse
  exc,                         \* the exception in flight
  ret,                         \* the value update_docs returned: <<>> is None
  \* the world
  disk,                        \* the working tree: path -> content or Absent
  git_index,                   \* git's index: path -> content or Absent
  git_head,                    \* the commit checked out
  disk_at_start,               \* the working tree update_docs was called on
  log,                         \* every remote call, file and git operation
  status_calls,                \* the PUT /api/autodoc/{run_id} requests sent
  env_file,                    \* the lines appended to $GITHUB_ENV
  \* _partition_diff_by_file_name
  diff_lines,                  \* its argument: a sequence of lines
  line_idx,                    \* the position of the for loop
  curr_file_path,              \* a line (a sequence of characters) or NoLine
  diff_by_file,                \* the dict: a sequence of <<key, value>>
  ppc,                         \* "loop", "returned" or "raised"
  perr,                        \* the error raised
  \* a method of RunLLMClient
  client_op,                   \* the method called
  client_resp,                 \* the response of requests: status_code and text
  client_out                   \* what the method did: returned or raised

args == <<mode, diff_by_file_path, openapi_spec>>
locals == <<openapi_spec_already_exists, repo_id, repos, autodoc_run, total_token_count,
            file_idx, file_content, doc_resp, diff, resp, exc, ret>>
world == <<disk, git_index, git_head, disk_at_start, log, status_calls, env_file>>
uvars == <<args, pc, locals, world>>
pvars == <<diff_lines, line_idx, curr_file_path, diff_by_file, ppc, perr>>
cvars == <<client_op, client_resp, client_out>>
vars == <<uvars, pvars, cvars>>

Event(op, path, ok, tokens, content) ==
  [op |-> op, path |-> path, ok |-> ok, tokens |-> tokens, content |-> content]
StatusCall(status, run, text, code) ==
  [status |-> status, run_id |-> run, text |-> text, code |-> code]

NoRun == [run_id |-> 0, file_path_to_language |-> <<>>]
NoResp == [content |-> None, tokens_used |-> NoTokens]

\* the path the for loop is at
file_path == diff_by_file_path[file_idx]
run_id == autodoc_run.run_id

(***************************************************************************)
(* str() of a run identifier, as an f-string renders it.                   *)
(***************************************************************************)
Digits == <<"0", "1", "2", "3", "4", "5", "6", "7", "8", "9">>
RECURSIVE StrOfInt(_)
StrOfInt(n) ==
  IF n < 10 THEN <<Digits[n + 1]>>
  ELSE StrOfInt(n \div 10) \o <<Digits[(n % 10) + 1]>>
NewLine == <<"\n">>
\* str(x) of an Optional[int]: <<>> is None
Str(x) == IF x = <<>> THEN <<"N", "o", "n", "e">> ELSE StrOfInt(x[1])

(***************************************************************************)
(* scripts/client.py                                                       *)
(***************************************************************************)
\* a mutant: only the error classes of HTTP count as errors
CheckForErrorFrom400(status) == status >= 400
\* _check_for_error raises unless the status is 200
CheckForError(status) == status # 200

ClientOps == {"list_repositories", "create_repository", "create_autodoc_run",
              "generate_inline_documentation", "generate_openapi_spec",
              "generate_explanation", "mark_completed", "mark_failed"}
\* a response body: the JSON the method's response model accepts, JSON of
\* the expected shape with fields it does not accept, JSON of another shape,
\* JSON nested too deep for the parser, and no JSON
ValidBody == "valid"
ResponseTexts == {ValidBody, "invalid", "shape", "nested", "huge", "text"}

\* what a parsing method raises on the answer (status, text), if it raises
RaisesOn(status, text) == CheckForError(status) \/ text # ValidBody
ResponseError(op, path, status, text) ==
  IF CheckForError(status) THEN TransportMsg(op, path, status)
  ELSE IF text = "invalid" THEN ValidationMsg(op, path)
  ELSE IF text = "shape" THEN TypeErrorMsg(op, path)
  ELSE IF text = "nested" THEN RecursionMsg(op, path)
  ELSE IF text = "huge" THEN ValueErrorMsg(op, path)
  ELSE JSONDecodeMsg(op, path)

Pending == [kind |-> "pending", value |-> <<>>]
Returned(v) == [kind |-> "returned", value |-> v]
Raised(m) == [kind |-> "raised", value |-> m]

\* line 52: f"Request failed with status code {resp.status_code}. Response: {resp.text}"
RequestFailedMsg(r) ==
  <<"Request failed with status code ">> \o StrOfInt(r.status_code)
    \o <<". Response: ", r.text>>
\* resp.json() or the response model rejects the body
ParseErrorMsg(r) == <<"cannot parse ", r.text>>

\* a method that builds its result from resp.json()
ParsingMethod(op) ==
  /\ client_op = op
  /\ client_out = Pending
  /\ client_out' = IF CheckForError(client_resp.status_code)
                    THEN Raised(RequestFailedMsg(client_resp))
                    ELSE IF RaisesOn(client_resp.status_code, client_resp.text)
                    THEN Raised(ParseErrorMsg(client_resp))
                    ELSE Returned(<<client_resp.text>>)
  /\ UNCHANGED <<uvars, pvars, client_op, client_resp>>

\* a method that returns None once _check_for_error has passed
StatusMethod(op) ==
  /\ client_op = op
  /\ client_out = Pending
  /\ client_out' = IF CheckForError(client_resp.status_code)
                    THEN Raised(RequestFailedMsg(client_resp))
                    ELSE Returned(<<>>)
  /\ UNCHANGED <<uvars, pvars, client_op, client_resp>>

list_repositories == ParsingMethod("list_repositories")
create_repository == ParsingMethod("create_repository")
create_autodoc_run == ParsingMethod("create_autodoc_run")
generate_inline_documentation == ParsingMethod("generate_inline_documentation")
generate_openapi_spec == ParsingMethod("generate_openapi_spec")
generate_explanation == ParsingMethod("generate_explanation")
mark_completed == StatusMethod("mark_completed")
mark_failed == StatusMethod("mark_failed")

InitClient ==
  /\ client_op \in ClientOps
  /\ client_resp \in [status_code : StatusCodes, text : ResponseTexts]
  /\ client_out = Pending

NextClient ==
  \/ list_repositories \/ create_repository \/ create_autodoc_run
  \/ generate_inline_documentation \/ generate_openapi_spec
  \/ generate_explanation \/ mark_completed \/ mark_failed

(***************************************************************************)
(* git, as _git_diff and _git_add use it.                                   *)
(***************************************************************************)
\* git diff: the tracked paths whose working-tree content is not the index's
WorkingTreeDiff(d, idx) == {p \in AllFiles : idx[p] # Absent /\ d[p] # idx[p]}
\* git diff --cached <path>: the path, if its index content is not HEAD's
CachedDiff(idx, head, p) == {q \in {p} : idx[q] # head[q]}
\* git add <path> fails on a path that neither exists nor is tracked
GitAddFails(d, idx, p) == d[p] = Absent /\ idx[p] = Absent

(***************************************************************************)
(* update_docs: where an exception goes.                                   *)
(***************************************************************************)
\* a mutant: the try block opened before the repository was resolved
RaiseOutsideTryReported(m) == pc' = "except" /\ exc' = NewExc(m) /\ ret' = ret
\* raised at lines 101-111, outside the try: it reaches the caller as it is
RaiseOutsideTry(m) == pc' = "raised" /\ exc' = NewExc(m) /\ ret' = ret

\* raised at lines 113-163, inside the try: the except clause runs next
RaiseInTry(m) == pc' = "except" /\ exc' = NewExc(m) /\ ret' = ret

Logged(e) == log' = Append(log, e)

\* what is left in a file when the write of c stops part way: nothing, or
\* the beginning of c (every content of Contents begins with FirstPart)
PartsOf(c) == IF c \in Contents THEN {Truncated, FirstPart} ELSE {Truncated}
\* with open(target, "w") as f: f.write(c), failing.  open raises and the
\* file is as it was; or the write or the flush raises: a part of c is in
\* the file, and the OSError of close has the OSError of the flush as
\* context; or close raises after all of c has been flushed
FailedWrite(target, c) ==
  /\ Logged(Event("write", target, FALSE, 0, None))
  /\ pc' = "except"
  /\ ret' = ret
  /\ \/ /\ disk' = disk
        /\ exc' = NewExc(LocalMsg("write", target))
     \/ /\ \E part \in PartsOf(c) : disk' = [disk EXCEPT ![target] = part]
        /\ exc' \in {NewExc(LocalMsg("write", target)), ExcAtClose(LocalMsg("write", target))}
     \/ /\ disk' = [disk EXCEPT ![target] = c]
        /\ exc' = NewExc(LocalMsg("write", target))

(***************************************************************************)
(* update_docs: the decisions it takes.                                    *)
(***************************************************************************)
\* a mutant: every submitted path is processed
IsSupportedAlways(p, mapping) == TRUE
\* line 115: file_path in autodoc_run.file_path_to_language
IsSupported(p, mapping) == p \in DOMAIN mapping

\* a mutant: the content goes back to the source in either mode
WriteTargetSource(m, p, spec) == p
\* lines 134-141: the file the documented content is written to
WriteTarget(m, p, spec) == IF m = INLINE THEN p ELSE spec

\* a mutant: the working-tree diff is for inline mode alone
UsesWorkingTreeDiffInlineOnly(m, exists) == m = INLINE
\* line 145: mode is INLINE or openapi_spec_already_exists
UsesWorkingTreeDiff(m, exists) == m = INLINE \/ exists

\* a mutant: the first repository of the listing, whatever its name
FirstMatchAny(listing, name) == IF listing = <<>> THEN 0 ELSE 1
\* lines 55-57: the position of the first repository named name, or 0
FirstMatch(listing, name) ==
  IF \E k \in 1..Len(listing) : listing[k].name = name
  THEN CHOOSE k \in 1..Len(listing) :
         /\ listing[k].name = name
         /\ \A j \in 1..(k - 1) : listing[j].name # name
  ELSE 0

GenerateOp(m) ==
  IF m = INLINE THEN "generate_inline_documentation" ELSE "generate_openapi_spec"

(***************************************************************************)
(* update_docs, a statement per action.                                    *)
(***************************************************************************)
InitUpdateDocs ==
  /\ mode \in {INLINE, OPENAPI}
  /\ diff_by_file_path \in DistinctSeqs(Paths, MaxFiles)
  \* --output_spec_file is any path, that of a submitted source included
  /\ openapi_spec \in (IF mode = INLINE THEN {None, SpecPath}
                       ELSE {SpecPath} \cup SourceSpecPaths)
  /\ pc = "start"
  /\ openapi_spec_already_exists = FALSE
  /\ repo_id = 0
  /\ repos = <<>>
  /\ autodoc_run = NoRun
  /\ total_token_count = NoTokens
  /\ file_idx = 0
  /\ file_content = None
  /\ doc_resp = NoResp
  /\ diff = {}
  /\ resp = NoResp
  /\ exc = NoExc
  /\ ret = <<>>
  \* a checkout: the sources are tracked and unmodified; the spec file is
  \* missing, tracked, or present but not tracked
  /\ \E spec_on_disk \in (IF mode = OPENAPI /\ openapi_spec = SpecPath
                          THEN {Absent, "c0"} ELSE {Absent}),
        spec_tracked \in BOOLEAN :
       /\ spec_tracked => spec_on_disk # Absent
       /\ disk = [p \in AllFiles |->
                    IF p \in Paths THEN "c0"
                    ELSE IF p = SpecPath THEN spec_on_disk ELSE Absent]
       /\ git_head = [p \in AllFiles |->
                        IF p \in Paths THEN "c0"
                        ELSE IF p = SpecPath /\ spec_tracked THEN spec_on_disk
                        ELSE Absent]
  /\ git_index = git_head
  /\ disk_at_start = disk
  /\ log = <<>>
  /\ status_calls = <<>>
  /\ env_file = <<>>

\* lines 101-103
Start ==
  /\ pc = "start"
  /\ openapi_spec_already_exists' = (mode = OPENAPI /\ disk[openapi_spec] # Absent)
  /\ pc' = "list_repositories"
  /\ UNCHANGED <<cvars, pvars, args, repo_id, repos, autodoc_run, total_token_count, file_idx,
                 file_content, doc_resp, diff, resp, exc, ret, world>>

\* _get_or_create_repo_id, lines 54-57: the listing and the search in it
ListRepositories ==
  /\ pc = "list_repositories"
  /\ \E status \in AnswerCodes, text \in ResponseTexts :
       IF RaisesOn(status, text)
       THEN /\ Logged(Event("list_repositories", None, FALSE, 0, None))
            /\ RaiseOutsideTry(ResponseError("list_repositories", None, status, text))
            /\ UNCHANGED <<repo_id, repos>>
       ELSE \E listing \in SeqsUpTo([id : RepoIds, name : RepoNames], MaxRepos) :
              /\ Logged(Event("list_repositories", None, TRUE, 0, None))
              /\ repos' = listing
              /\ IF FirstMatch(listing, RepoName) # 0
                 THEN /\ repo_id' = listing[FirstMatch(listing, RepoName)].id
                      /\ pc' = "create_autodoc_run"
                 ELSE /\ repo_id' = repo_id
                      /\ pc' = "create_repository"
              /\ UNCHANGED <<exc, ret>>
  /\ UNCHANGED <<cvars, pvars, args, openapi_spec_already_exists, autodoc_run, total_token_count,
                 file_idx, file_content, doc_resp, diff, resp,
                 disk, git_index, git_head, disk_at_start, status_calls, env_file>>

\* _get_or_create_repo_id, line 60
CreateRepository ==
  /\ pc = "create_repository"
  /\ \E status \in AnswerCodes, text \in ResponseTexts :
       IF RaisesOn(status, text)
       THEN /\ Logged(Event("create_repository", None, FALSE, 0, None))
            /\ RaiseOutsideTry(ResponseError("create_repository", None, status, text))
            /\ UNCHANGED repo_id
       ELSE /\ Logged(Event("create_repository", None, TRUE, 0, None))
            /\ repo_id' \in CreatedRepoIds
            /\ pc' = "create_autodoc_run"
            /\ UNCHANGED <<exc, ret>>
  /\ UNCHANGED <<cvars, pvars, args, openapi_spec_already_exists, repos, autodoc_run, total_token_count,
                 file_idx, file_content, doc_resp, diff, resp,
                 disk, git_index, git_head, disk_at_start, status_calls, env_file>>

\* lines 108-111: the service answers with a run id and the paths it supports;
\* _get_or_create_repo_id has returned, and its listing is gone
CreateAutodocRun ==
  /\ pc = "create_autodoc_run"
  /\ repos' = <<>>
  /\ \E status \in AnswerCodes, text \in ResponseTexts :
       IF RaisesOn(status, text)
       THEN /\ Logged(Event("create_autodoc_run", None, FALSE, 0, None))
            /\ RaiseOutsideTry(ResponseError("create_autodoc_run", None, status, text))
            /\ UNCHANGED <<autodoc_run, total_token_count, file_idx>>
       ELSE \E r \in RunIds, supported \in SUBSET Range(diff_by_file_path) :
              /\ Logged(Event("create_autodoc_run", None, TRUE, 0, None))
              /\ autodoc_run' = [run_id |-> r,
                                 file_path_to_language |-> [p \in supported |-> "python"]]
              /\ total_token_count' = NoTokens
              /\ file_idx' = 1
              /\ pc' = "for"
              /\ UNCHANGED <<exc, ret>>
  /\ UNCHANGED <<cvars, pvars, args, openapi_spec_already_exists, repo_id,
                 file_content, doc_resp, diff, resp,
                 disk, git_index, git_head, disk_at_start, status_calls, env_file>>

\* a mutant: the loop stops one key early
LoopExitEarly ==
  /\ pc = "for"
  /\ file_idx >= Len(diff_by_file_path)
  /\ pc' = "detect"
  /\ UNCHANGED <<cvars, pvars, args, locals, world>>

\* line 114: the keys are exhausted
LoopExit ==
  /\ pc = "for"
  /\ file_idx > Len(diff_by_file_path)
  /\ pc' = "detect"
  /\ UNCHANGED <<cvars, pvars, args, locals, world>>

\* a mutant: after a path is passed over, the loop starts again at the first key
SkipFileRestart ==
  /\ pc = "for"
  /\ file_idx <= Len(diff_by_file_path)
  /\ ~IsSupported(file_path, autodoc_run.file_path_to_language)
  /\ file_idx' = IF file_idx = 1 THEN 2 ELSE 1
  /\ UNCHANGED <<cvars, pvars, args, pc, openapi_spec_already_exists, repo_id, repos, autodoc_run,
                 total_token_count, file_content, doc_resp, diff, resp, exc, ret,
                 world>>

\* lines 115-117: a path the service does not support is passed over
SkipFile ==
  /\ pc = "for"
  /\ file_idx <= Len(diff_by_file_path)
  /\ ~IsSupported(file_path, autodoc_run.file_path_to_language)
  /\ file_idx' = file_idx + 1
  /\ UNCHANGED <<cvars, pvars, args, pc, openapi_spec_already_exists, repo_id, repos, autodoc_run,
                 total_token_count, file_content, doc_resp, diff, resp, exc, ret,
                 world>>

\* lines 118-121: open(file_path, 'r') and read
ReadFile ==
  /\ pc = "for"
  /\ file_idx <= Len(diff_by_file_path)
  /\ IsSupported(file_path, autodoc_run.file_path_to_language)
  /\ \E ok \in BOOLEAN :
       /\ ok => disk[file_path] # Absent
       /\ Logged(Event("read", file_path, ok, 0, IF ok THEN disk[file_path] ELSE None))
       /\ IF ok
          THEN /\ file_content' = disk[file_path]
               /\ pc' = "generate"
               /\ UNCHANGED <<exc, ret>>
          ELSE /\ RaiseInTry(LocalMsg("read", file_path))
               /\ UNCHANGED file_content
  /\ UNCHANGED <<cvars, pvars, args, openapi_spec_already_exists, repo_id, repos, autodoc_run,
                 total_token_count, file_idx, doc_resp, diff, resp,
                 disk, git_index, git_head, disk_at_start, status_calls, env_file>>

\* lines 123-131: the generation call of the mode, its tokens and their cost
Generate ==
  /\ pc = "generate"
  /\ \E status \in AnswerCodes, text \in ResponseTexts :
       IF RaisesOn(status, text)
       THEN /\ Logged(Event(GenerateOp(mode), file_path, FALSE, 0, None))
            /\ RaiseInTry(ResponseError(GenerateOp(mode), file_path, status, text))
            /\ UNCHANGED <<doc_resp, total_token_count>>
       ELSE \E c \in Contents, t \in TokenCounts :
              /\ Logged(Event(GenerateOp(mode), file_path, TRUE, t, c))
              /\ doc_resp' = [content |-> c, tokens_used |-> t]
              /\ total_token_count' = Plus(total_token_count, t)
              /\ IF CalculateCostRaises(t)
                 THEN RaiseInTry(OverflowMsg(file_path))
                 ELSE pc' = "write" /\ UNCHANGED <<exc, ret>>
  /\ UNCHANGED <<cvars, pvars, args, openapi_spec_already_exists, repo_id, repos, autodoc_run,
                 file_idx, file_content, diff, resp,
                 disk, git_index, git_head, disk_at_start, status_calls, env_file>>

\* lines 133-141: open(target, "w") truncates, write fills; either may fail
WriteBack ==
  /\ pc = "write"
  /\ LET target == WriteTarget(mode, file_path, openapi_spec)
     IN \/ /\ Logged(Event("write", target, TRUE, 0, doc_resp.content))
           /\ disk' = [disk EXCEPT ![target] = doc_resp.content]
           /\ file_idx' = file_idx + 1
           /\ pc' = "for"
           /\ UNCHANGED <<exc, ret>>
        \/ /\ FailedWrite(target, doc_resp.content)
           /\ UNCHANGED file_idx
  /\ UNCHANGED <<cvars, pvars, args, openapi_spec_already_exists, repo_id, repos, autodoc_run,
                 total_token_count, file_content, doc_resp, diff, resp,
                 git_index, git_head, disk_at_start, status_calls, env_file>>

\* lines 145-146: _git_diff()
GitDiff ==
  /\ pc = "detect"
  /\ UsesWorkingTreeDiff(mode, openapi_spec_already_exists)
  /\ \E ok \in BOOLEAN :
       /\ Logged(Event("git_diff", None, ok, 0, None))
       /\ IF ok
          THEN /\ diff' = WorkingTreeDiff(disk, git_index)
               /\ pc' = "check_diff"
               /\ UNCHANGED <<exc, ret>>
          ELSE /\ RaiseInTry(LocalMsg("git_diff", None))
               /\ UNCHANGED diff
  /\ UNCHANGED <<cvars, pvars, args, openapi_spec_already_exists, repo_id, repos, autodoc_run,
                 total_token_count, file_idx, file_content, doc_resp, resp,
                 disk, git_index, git_head, disk_at_start, status_calls, env_file>>

\* lines 147-150: _git_add(openapi_spec)
GitAdd ==
  /\ pc = "detect"
  /\ ~UsesWorkingTreeDiff(mode, openapi_spec_already_exists)
  /\ \E ok \in BOOLEAN :
       /\ ok => ~GitAddFails(disk, git_index, openapi_spec)
       /\ Logged(Event("git_add", openapi_spec, ok, 0, None))
       /\ IF ok
          THEN /\ git_index' = [git_index EXCEPT ![openapi_spec] = disk[openapi_spec]]
               /\ pc' = "git_diff_cached"
               /\ UNCHANGED <<exc, ret>>
          ELSE /\ RaiseInTry(LocalMsg("git_add", openapi_spec))
               /\ UNCHANGED git_index
  /\ UNCHANGED <<cvars, pvars, args, openapi_spec_already_exists, repo_id, repos, autodoc_run,
                 total_token_count, file_idx, file_content, doc_resp, diff, resp,
                 disk, git_head, disk_at_start, status_calls, env_file>>

\* line 151: _git_diff(cached=True, file_path=openapi_spec)
GitDiffCached ==
  /\ pc = "git_diff_cached"
  /\ \E ok \in BOOLEAN :
       /\ Logged(Event("git_diff_cached", openapi_spec, ok, 0, None))
       /\ IF ok
          THEN /\ diff' = CachedDiff(git_index, git_head, openapi_spec)
               /\ pc' = "check_diff"
               /\ UNCHANGED <<exc, ret>>
          ELSE /\ RaiseInTry(LocalMsg("git_diff_cached", openapi_spec))
               /\ UNCHANGED diff
  /\ UNCHANGED <<cvars, pvars, args, openapi_spec_already_exists, repo_id, repos, autodoc_run,
                 total_token_count, file_idx, file_content, doc_resp, resp,
                 disk, git_index, git_head, disk_at_start, status_calls, env_file>>

\* lines 153-155: a bare return, whose value is None
ReturnNoChanges ==
  /\ pc = "check_diff"
  /\ diff = {}
  /\ ret' = <<>>
  /\ pc' = "returned"
  /\ UNCHANGED <<cvars, pvars, args, openapi_spec_already_exists, repo_id, repos, autodoc_run,
                 total_token_count, file_idx, file_content, doc_resp, diff, resp,
                 exc, world>>

\* a mutant: a failed explanation call is passed over, and pr-body.txt is
\* written all the same
GenerateExplanationLenient ==
  /\ pc = "check_diff"
  /\ diff # {}
  /\ \E status \in AnswerCodes, text \in ResponseTexts :
       IF RaisesOn(status, text)
       THEN /\ Logged(Event("generate_explanation", None, FALSE, 0, None))
            /\ pc' = "write_pr_body"
            /\ UNCHANGED <<resp, exc, ret>>
       ELSE \E c \in Contents, t \in TokenCounts :
              /\ Logged(Event("generate_explanation", None, TRUE, t, c))
              /\ resp' = [content |-> c, tokens_used |-> t]
              /\ pc' = "write_pr_body"
              /\ UNCHANGED <<exc, ret>>
  /\ UNCHANGED <<cvars, pvars, args, openapi_spec_already_exists, repo_id, repos, autodoc_run,
                 total_token_count, file_idx, file_content, doc_resp, diff,
                 disk, git_index, git_head, disk_at_start, status_calls, env_file>>

\* line 158: the explanation of the whole diff
GenerateExplanation ==
  /\ pc = "check_diff"
  /\ diff # {}
  /\ \E status \in AnswerCodes, text \in ResponseTexts :
       IF RaisesOn(status, text)
       THEN /\ Logged(Event("generate_explanation", None, FALSE, 0, None))
            /\ RaiseInTry(ResponseError("generate_explanation", None, status, text))
            /\ UNCHANGED resp
       ELSE \E c \in Contents, t \in TokenCounts :
              /\ Logged(Event("generate_explanation", None, TRUE, t, c))
              /\ resp' = [content |-> c, tokens_used |-> t]
              /\ pc' = "write_pr_body"
              /\ UNCHANGED <<exc, ret>>
  /\ UNCHANGED <<cvars, pvars, args, openapi_spec_already_exists, repo_id, repos, autodoc_run,
                 total_token_count, file_idx, file_content, doc_resp, diff,
                 disk, git_index, git_head, disk_at_start, status_calls, env_file>>

\* a mutant: the explanation's tokens are left out of the total
WritePrBodyUncounted ==
  /\ pc = "write_pr_body"
  /\ \/ /\ Logged(Event("write", PrBody, TRUE, 0, resp.content))
        /\ disk' = [disk EXCEPT ![PrBody] = resp.content]
        /\ IF CalculateCostRaises(resp.tokens_used)
           THEN RaiseInTry(OverflowMsg(None))
           ELSE pc' = "return" /\ UNCHANGED <<exc, ret>>
     \/ FailedWrite(PrBody, resp.content)
  /\ UNCHANGED <<cvars, pvars, args, openapi_spec_already_exists, repo_id, repos, autodoc_run,
                 total_token_count, file_idx, file_content, doc_resp, diff, resp,
                 git_index, git_head, disk_at_start, status_calls, env_file>>

\* lines 159-163: pr-body.txt, then the explanation's tokens and their cost
WritePrBody ==
  /\ pc = "write_pr_body"
  /\ \/ /\ Logged(Event("write", PrBody, TRUE, 0, resp.content))
        /\ disk' = [disk EXCEPT ![PrBody] = resp.content]
        /\ total_token_count' = Plus(total_token_count, resp.tokens_used)
        /\ IF CalculateCostRaises(resp.tokens_used)
           THEN RaiseInTry(OverflowMsg(None))
           ELSE pc' = "return" /\ UNCHANGED <<exc, ret>>
     \/ /\ FailedWrite(PrBody, resp.content)
        /\ UNCHANGED total_token_count
  /\ UNCHANGED <<cvars, pvars, args, openapi_spec_already_exists, repo_id, repos, autodoc_run,
                 file_idx, file_content, doc_resp, diff, resp,
                 git_index, git_head, disk_at_start, status_calls, env_file>>

\* lines 169-170: the print of the total and its cost, after the try, then
\* return run_id
ReturnRunId ==
  /\ pc = "return"
  /\ IF CalculateCostRaises(total_token_count)
     THEN RaiseOutsideTry(OverflowMsg(None))
     ELSE /\ ret' = <<run_id>>
          /\ pc' = "returned"
          /\ exc' = exc
  /\ UNCHANGED <<cvars, pvars, args, openapi_spec_already_exists, repo_id, repos, autodoc_run,
                 total_token_count, file_idx, file_content, doc_resp, diff, resp,
                 world>>

\* lines 165-167: mark_failed(run_id, str(e)), then raise.  An exception of
\* mark_failed leaves the except clause in place of e, with e as its context.
Except ==
  /\ pc = "except"
  /\ \E status \in AnswerCodes :
       /\ status_calls' = Append(status_calls,
                                 StatusCall("Failed", Str(<<run_id>>), exc.msg, status))
       /\ exc' = IF CheckForError(status)
                 THEN [msg |-> TransportMsg("mark_failed", None, status),
                       context |-> exc.msg]
                 ELSE exc
  /\ pc' = "raised"
  /\ UNCHANGED <<cvars, pvars, args, openapi_spec_already_exists, repo_id, repos, autodoc_run,
                 total_token_count, file_idx, file_content, doc_resp, diff, resp,
                 ret, disk, git_index, git_head, disk_at_start, log, env_file>>

\* lines 208-223: the driver calls update_docs in openapi mode alone, with
\* the one key --input-api-file; any other call of update_docs is not its own
CalledByDriver == mode = OPENAPI /\ Len(diff_by_file_path) = 1

\* line 236: f"AUTODOC_RUN_ID={run_id}\n"
EnvName == <<"A", "U", "T", "O", "D", "O", "C", "_", "R", "U", "N", "_", "I", "D">>
EnvLine(x) == EnvName \o <<"=">> \o Str(x) \o NewLine
\* the value a later step of the pipeline reads from a line of $GITHUB_ENV
EnvValue(l) == SubSeq(l, Len(EnvName) + 2, Len(l) - 1)

\* the driver, lines 226-236: the returned value is appended to $GITHUB_ENV;
\* open(os.getenv('GITHUB_ENV'), 'a') may raise, and the write or the close
\* may raise after a part of the line, or all of it, has been appended
WriteEnv ==
  /\ pc = "returned"
  /\ CalledByDriver
  /\ \/ /\ env_file' = Append(env_file, EnvLine(ret))
        /\ pc' = "exited"
     \/ /\ \E n \in 0..Len(EnvLine(ret)) :
             env_file' = IF n = 0 THEN env_file
                         ELSE Append(env_file, SubSeq(EnvLine(ret), 1, n))
        /\ pc' = "driver_raised"
  /\ UNCHANGED <<cvars, pvars, args, locals, disk, git_index, git_head, disk_at_start, log, status_calls>>

\* mark_run_completed.py, lines 12-14, run by the pipeline with the
\* AUTODOC_RUN_ID of $GITHUB_ENV as --run-id
MarkRunCompleted ==
  /\ pc = "exited"
  /\ \E status \in AnswerCodes :
       /\ status_calls' = Append(status_calls,
                                 StatusCall("Succeeded", EnvValue(env_file[Len(env_file)]),
                                            NoMsg, status))
       /\ pc' = IF CheckForError(status) THEN "mark_completed_raised" ELSE "completed"
  /\ UNCHANGED <<cvars, pvars, args, locals, disk, git_index, git_head, disk_at_start, log, env_file>>

Next ==
  \/ Start \/ ListRepositories \/ CreateRepository \/ CreateAutodocRun
  \/ LoopExit \/ SkipFile \/ ReadFile \/ Generate \/ WriteBack
  \/ GitDiff \/ GitAdd \/ GitDiffCached
  \/ ReturnNoChanges \/ GenerateExplanation \/ WritePrBody \/ ReturnRunId
  \/ Except \/ WriteEnv \/ MarkRunCompleted

(***************************************************************************)
(* _partition_diff_by_file_name.  A line is a sequence of characters.      *)
(***************************************************************************)
\* "diff --git"
HeaderPrefix == <<"d", "i", "f", "f", " ", "-", "-", "g", "i", "t">>
\* " a/" and " b/"
AMarker == <<" ", "a", "/">>
BMarker == <<" ", "b", "/">>

\* the header line git prints for an edited file: diff --git a/<p> b/<p>
Header(p) == HeaderPrefix \o AMarker \o p \o BMarker \o p

\* the paths x, y and "x b/y" (the file y of the directory "x b")
PathPool == {<<"x">>, <<"y">>, <<"x", " ", "b", "/", "y">>}
\* the lines "+n" and "-o" of a hunk
BodyPool == {<<"+", "n">>, <<"-", "o">>}
\* the lines a diff is drawn from: headers, hunk lines, the bare prefix
\* "diff --git", and the header of the empty path, "diff --git a/ b/"
LinePool == {Header(p) : p \in PathPool} \cup BodyPool \cup {HeaderPrefix, Header(<<>>)}

\* str.startswith
StartsWith(s, prefix) ==
  Len(s) >= Len(prefix) /\ SubSeq(s, 1, Len(prefix)) = prefix

\* str.find, from 1; 0 when sep does not occur
Find(s, sep) ==
  LET at == {k \in 1..(Len(s) - Len(sep) + 1) : SubSeq(s, k, k + Len(sep) - 1) = sep}
  IN IF at = {} THEN 0 ELSE CHOOSE k \in at : \A j \in at : k <= j

\* str.split(sep)
RECURSIVE Split(_, _)
Split(s, sep) ==
  LET k == Find(s, sep)
  IN IF k = 0 THEN <<s>>
     ELSE <<SubSeq(s, 1, k - 1)>> \o Split(SubSeq(s, k + Len(sep), Len(s)), sep)

\* a mutant: a line that is no header is an error wherever it stands
IsMalformedHereAnywhere(curr, line) == ~StartsWith(line, HeaderPrefix)
\* line 34: curr_file_path is None and not line.startswith("diff --git")
IsMalformedHere(curr, line) == curr = <<>> /\ ~StartsWith(line, HeaderPrefix)

\* a mutant: the value of a key is replaced, not extended
DictAppendOverwrite(d, key, text) ==
  IF \E k \in 1..Len(d) : d[k].key = key
  THEN [k \in 1..Len(d) |-> IF d[k].key = key THEN [key |-> key, value |-> text] ELSE d[k]]
  ELSE Append(d, [key |-> key, value |-> text])
\* line 41, on a defaultdict(str): diff_by_file[key] += text
DictAppend(d, key, text) ==
  IF \E k \in 1..Len(d) : d[k].key = key
  THEN [k \in 1..Len(d) |->
          IF d[k].key = key THEN [key |-> key, value |-> d[k].value \o text] ELSE d[k]]
  ELSE Append(d, [key |-> key, value |-> text])

\* the line the for loop is at
line == diff_lines[line_idx]

InitPartition ==
  /\ diff_lines \in SeqsUpTo(LinePool, MaxLines)
  /\ line_idx = 1
  /\ curr_file_path = <<>>
  /\ diff_by_file = <<>>
  /\ ppc = "loop"
  /\ perr = "none"

\* lines 34-35
RaiseMalformed ==
  /\ ppc = "loop"
  /\ line_idx <= Len(diff_lines)
  /\ IsMalformedHere(curr_file_path, line)
  /\ ppc' = "raised"
  /\ perr' = "MalformedDiff"
  /\ UNCHANGED <<cvars, uvars, diff_lines, line_idx, curr_file_path, diff_by_file>>

\* lines 37-41 on a header line: the path after the first " b/"
HeaderLine ==
  /\ ppc = "loop"
  /\ line_idx <= Len(diff_lines)
  /\ ~IsMalformedHere(curr_file_path, line)
  /\ StartsWith(line, HeaderPrefix)
  /\ LET parts == Split(line, BMarker)
     IN IF Len(parts) < 2
        THEN \* line 38: [1] of a list of one element
             /\ ppc' = "raised"
             /\ perr' = "IndexError"
             /\ UNCHANGED <<line_idx, curr_file_path, diff_by_file>>
        ELSE IF parts[2] = <<>>
        THEN \* line 40: assert curr_file_path, on the empty string
             /\ ppc' = "raised"
             /\ perr' = "AssertionError"
             /\ curr_file_path' = <<parts[2]>>
             /\ UNCHANGED <<line_idx, diff_by_file>>
        ELSE /\ curr_file_path' = <<parts[2]>>
             /\ diff_by_file' = DictAppend(diff_by_file, parts[2], line \o NewLine)
             /\ line_idx' = line_idx + 1
             /\ UNCHANGED <<ppc, perr>>
  /\ UNCHANGED <<cvars, uvars, diff_lines>>

\* lines 40-41 on any other line
BodyLine ==
  /\ ppc = "loop"
  /\ line_idx <= Len(diff_lines)
  /\ ~IsMalformedHere(curr_file_path, line)
  /\ ~StartsWith(line, HeaderPrefix)
  /\ diff_by_file' = DictAppend(diff_by_file, curr_file_path[1], line \o NewLine)
  /\ line_idx' = line_idx + 1
  /\ UNCHANGED <<cvars, uvars, diff_lines, curr_file_path, ppc, perr>>

\* line 43
PartitionReturn ==
  /\ ppc = "loop"
  /\ line_idx > Len(diff_lines)
  /\ ppc' = "returned"
  /\ UNCHANGED <<cvars, uvars, diff_lines, line_idx, curr_file_path, diff_by_file, perr>>

NextPartition == RaiseMalformed \/ HeaderLine \/ BodyLine \/ PartitionReturn

\* update_docs at rest
UpdateDocsIdle ==
  /\ mode = INLINE
  /\ diff_by_file_path = <<>>
  /\ openapi_spec = None
  /\ pc = "idle"
  /\ openapi_spec_already_exists = FALSE
  /\ repo_id = 0
  /\ repos = <<>>
  /\ autodoc_run = NoRun
  /\ total_token_count = NoTokens
  /\ file_idx = 0
  /\ file_content = None
  /\ doc_resp = NoResp
  /\ diff = {}
  /\ resp = NoResp
  /\ exc = NoExc
  /\ ret = <<>>
  /\ disk = [p \in AllFiles |-> Absent]
  /\ git_head = [p \in AllFiles |-> Absent]
  /\ git_index = [p \in AllFiles |-> Absent]
  /\ disk_at_start = disk
  /\ log = <<>>
  /\ status_calls = <<>>
  /\ env_file = <<>>

\* the partitioner at rest
PartitionIdle ==
  /\ diff_lines = <<>>
  /\ line_idx = 0
  /\ curr_file_path = <<>>
  /\ diff_by_file = <<>>
  /\ ppc = "idle"
  /\ perr = "none"

\* no method of the client under study
ClientIdle ==
  /\ client_op = "none"
  /\ client_resp = [status_code |-> 0, text |-> ""]
  /\ client_out = Pending

Init == InitUpdateDocs /\ PartitionIdle /\ ClientIdle
Spec == Init /\ [][Next]_vars

\* every call, file operation and git command returns or raises: a step
\* that can be taken is taken
SpecFair == Init /\ [][Next]_vars /\ WF_vars(Next)

InitP == InitPartition /\ UpdateDocsIdle /\ ClientIdle
SpecPartition == InitP /\ [][NextPartition]_vars

InitC == InitClient /\ UpdateDocsIdle /\ PartitionIdle
SpecClient == InitC /\ [][NextClient]_vars

(***************************************************************************)
(* What the claims speak of.                                               *)
(***************************************************************************)
\* create_autodoc_run has returned a run identifier
Registered == autodoc_run # NoRun
LastLog == log[Len(log)]
\* the status updates sent for the run update_docs registered
CallsForRun == {k \in 1..Len(status_calls) : status_calls[k].run_id = Str(<<run_id>>)}
FailedCalls == {k \in 1..Len(status_calls) : status_calls[k].status = "Failed"}
\* update_docs has raised out of its try block (the except clause has run)
RaisedAfterRegistration == pc = "raised" /\ Registered
OpsOfLog == {log[k].op : k \in 1..Len(log)}
GenerateOps == {"generate_inline_documentation", "generate_openapi_spec"}
\* m is the error of the step the log ends with: of the call, file operation
\* or git command that failed, or of the cost print that follows a
\* generation call or the write of pr-body.txt
IsErrorOfLastStep(m) ==
  /\ log # <<>>
  /\ \/ /\ ~LastLog.ok
        /\ m.op = LastLog.op
        /\ m.path = LastLog.path
        /\ m.kind \in {"transport", "local", "ValidationError", "TypeError", "RecursionError",
                     "ValueError", "JSONDecodeError"}
        /\ m.kind = "transport" => CheckForError(m.status)
     \/ /\ LastLog.ok
        /\ LastLog.op \in GenerateOps
        /\ CalculateCostRaises(LastLog.tokens)
        /\ m = OverflowMsg(LastLog.path)
     \/ /\ LastLog.ok
        /\ LastLog.op = "write"
        /\ LastLog.path = PrBody
        /\ CalculateCostRaises(log[Len(log) - 1].tokens)
        /\ m = OverflowMsg(None)
\* e is an exception as the failed step raised it, with the context it had
IsAsRaised(e) ==
  \/ e = NewExc(e.msg)
  \/ e.msg.kind = "local" /\ e.msg.op = "write" /\ e = ExcAtClose(e.msg)

(***************************************************************************)
(* C1.  Once create_autodoc_run has returned, an exception of any later    *)
(* step makes update_docs call mark_failed for the run with the            *)
(* exception's message, and the exception that reaches the caller is that  *)
(* same exception.  The code breaks the last part when mark_failed itself  *)
(* raises (C4).                                                            *)
(***************************************************************************)
C1_FailureReportedAndSameExceptionRaised ==
  RaisedAfterRegistration =>
    /\ \E k \in CallsForRun :
         /\ status_calls[k].status = "Failed"
         /\ status_calls[k].text = exc.msg
    /\ IsAsRaised(exc)
    /\ IsErrorOfLastStep(exc.msg)

(***************************************************************************)
(* C2.  The run reaches one terminal state and it is reported once.  The   *)
(* run receives at most one status update: exactly one, a Failed one, when *)
(* update_docs raises after registration, and then no step after the       *)
(* failed one was taken; none by the time update_docs returns, the         *)
(* Succeeded one being left to mark_run_completed.  In the code the print  *)
(* of line 169 is after the try: when it raises, update_docs raises and    *)
(* the run has received no status update.                                  *)
(***************************************************************************)
C2_AtMostOneStatusUpdate ==
  /\ Cardinality(CallsForRun) <= 1
  /\ Len(status_calls) <= 1
  /\ RaisedAfterRegistration =>
       /\ Cardinality(CallsForRun) = 1
       /\ FailedCalls = CallsForRun
       /\ \A k \in 1..Len(log) : ~log[k].ok => k = Len(log)
       /\ IsErrorOfLastStep(status_calls[1].text)
  /\ pc \in {"return", "returned"} => status_calls = <<>>
  /\ pc \notin {"raised", "except"} => FailedCalls = {}
  /\ (\E k \in 1..Len(status_calls) : status_calls[k].status = "Succeeded")
       => pc \in {"completed", "mark_completed_raised"}

(***************************************************************************)
(* C3.  When change detection yields an empty diff, no explanation call is *)
(* made, pr-body.txt is not written, mark_failed is not called, and        *)
(* update_docs returns the run's identifier.  The code returns None.       *)
(***************************************************************************)
C3_NoChangeReturnsRunId ==
  (pc = "returned" /\ diff = {}) =>
    /\ "generate_explanation" \notin OpsOfLog
    /\ disk[PrBody] = Absent
    /\ FailedCalls = {}
    /\ ret = <<run_id>>

(***************************************************************************)
(* C4.  When the mark_failed call of the except clause fails, update_docs  *)
(* still raises, and the error its caller receives carries the original    *)
(* error's message, not that of the failed status report.  In the code the *)
(* caller receives mark_failed's error.                                    *)
(***************************************************************************)
C4_OriginalMessageSurvivesFailedReport ==
  \A k \in FailedCalls :
    (pc = "raised" /\ CheckForError(status_calls[k].code)) =>
      exc.msg = status_calls[k].text

(***************************************************************************)
(* C5.  A failure of the repository listing, the repository creation or    *)
(* the run creation sends no status update, makes no generation or         *)
(* explanation call, writes no file and runs no git command, and reaches   *)
(* the caller unchanged.                                                   *)
(***************************************************************************)
C5_FailureBeforeRegistrationIsNotReported ==
  ~Registered =>
    /\ status_calls = <<>>
    /\ OpsOfLog \subseteq {"list_repositories", "create_repository", "create_autodoc_run"}
    /\ \A p \in Paths : disk[p] = "c0"
    /\ disk[PrBody] = Absent
    /\ disk[SpecPath] \in {Absent, "c0"}
    /\ git_index = git_head
    /\ pc = "raised" => exc = NewExc(exc.msg) /\ IsErrorOfLastStep(exc.msg)
    /\ pc \notin {"except", "returned", "exited", "completed", "mark_completed_raised",
                   "driver_raised"}

\* the run creation failed after the repository had to be created
C5_Witness ==
  /\ pc = "raised"
  /\ ~Registered
  /\ exc.msg.op = "create_autodoc_run"
  /\ "create_repository" \in OpsOfLog

(***************************************************************************)
(* C6.  A submitted path that is absent from file_path_to_language is      *)
(* passed over: the step taken at such a path makes no call, reads and     *)
(* writes no file, leaves the token total alone, raises nothing and moves  *)
(* the loop to the next path.                                              *)
(***************************************************************************)
AtUnsupportedPath ==
  /\ pc = "for"
  /\ file_idx <= Len(diff_by_file_path)
  /\ file_path \notin DOMAIN autodoc_run.file_path_to_language
C6_UnsupportedPathIsSkipped ==
  [][AtUnsupportedPath =>
       /\ log' = log
       /\ status_calls' = status_calls
       /\ disk' = disk
       /\ git_index' = git_index
       /\ total_token_count' = total_token_count
       /\ exc' = exc
       /\ pc' = "for"
       /\ file_idx' = file_idx + 1]_vars

\* the first path was passed over, the second was documented and written,
\* and the run went on to return its identifier
C6_Witness ==
  /\ pc = "returned"
  /\ ret = <<run_id>>
  /\ Len(diff_by_file_path) = 2
  /\ DOMAIN autodoc_run.file_path_to_language = {diff_by_file_path[2]}
  /\ total_token_count # NoTokens

(***************************************************************************)
(* C7.  When the processing of a supported file fails, every write-back    *)
(* made before it is still on disk, the run is reported Failed with the    *)
(* error's text, and that error is re-raised to the caller.  The code      *)
(* breaks the last part when mark_failed itself raises (C4).               *)
(***************************************************************************)
C7_EarlierWritesStayAndFailureIsReraised ==
  (RaisedAfterRegistration /\ file_idx <= Len(diff_by_file_path)) =>
    /\ \A k \in 1..Len(log) :
         (log[k].op = "write" /\ log[k].ok) => disk[log[k].path] = log[k].content
    /\ \E k \in CallsForRun :
         /\ status_calls[k].status = "Failed"
         /\ IsErrorOfLastStep(status_calls[k].text)
         /\ exc.msg = status_calls[k].text
         /\ IsAsRaised(exc)

(***************************************************************************)
(* C10.  update_docs goes forward only: the repository is resolved before  *)
(* the run is created, the run is created before any generation call, the  *)
(* generation calls are one per supported path in the order of the keys,   *)
(* every generation call and write-back precedes git add and git diff,     *)
(* these precede the explanation call, and there is at most one            *)
(* explanation call.                                                       *)
(***************************************************************************)
\* the place of an operation in the forward order
StepRank(e) ==
  CASE e.op = "list_repositories" -> 1
    [] e.op = "create_repository" -> 2
    [] e.op = "create_autodoc_run" -> 3
    [] e.op = "read" -> 4
    [] e.op \in GenerateOps -> 4
    [] e.op = "write" /\ e.path # PrBody -> 4
    [] e.op = "git_add" -> 5
    [] e.op = "git_diff" -> 6
    [] e.op = "git_diff_cached" -> 6
    [] e.op = "generate_explanation" -> 7
    [] e.op = "write" /\ e.path = PrBody -> 8
IsGenerate(e) == e.op \in GenerateOps
IsSupportedKey(p) == p \in DOMAIN autodoc_run.file_path_to_language
\* the paths of the generation calls made so far, in the order made
GeneratedPaths ==
  LET calls == SelectSeq(log, IsGenerate)
  IN [k \in 1..Len(calls) |-> calls[k].path]
\* the supported keys, in the order of the dict
SupportedKeys == SelectSeq(diff_by_file_path, IsSupportedKey)
CountOp(op) == Cardinality({k \in 1..Len(log) : log[k].op = op})
C10_StepsGoForward ==
  LET rank == [k \in 1..Len(log) |-> StepRank(log[k])]
      ops == OpsOfLog
      generated == GeneratedPaths
      supported == SupportedKeys
  IN
  \* the ranks never go down from one step to the next, hence from any step
  \* to any later one
  /\ \A k \in 1..(Len(log) - 1) : rank[k] <= rank[k + 1]
  /\ \A op \in {"list_repositories", "create_repository", "create_autodoc_run",
                "git_add", "git_diff", "git_diff_cached", "generate_explanation"} :
       CountOp(op) <= 1
  /\ (ops \cap {"create_autodoc_run", "create_repository"} # {})
       => log[1] = Event("list_repositories", None, TRUE, 0, None)
  /\ (\E k \in 1..Len(log) : rank[k] >= 4) => Registered
  /\ Len(generated) <= Len(supported)
  /\ generated = SubSeq(supported, 1, Len(generated))
  /\ (\E k \in 1..Len(log) : rank[k] >= 5) =>
       /\ generated = supported
       /\ \A k \in 1..Len(log) : IsGenerate(log[k]) => log[k].ok
       /\ CountOp("write") >= Len(supported)
  /\ "generate_explanation" \in ops =>
       ops \cap {"git_diff", "git_diff_cached"} # {}
  /\ "git_diff_cached" \in ops => "git_add" \in ops

\* two files documented in the order of the keys, then the staged diff of a
\* new spec file, then the explanation
C10_Witness ==
  /\ pc = "returned"
  /\ Len(GeneratedPaths) = 2
  /\ "git_add" \in OpsOfLog
  /\ "generate_explanation" \in OpsOfLog

(***************************************************************************)
(* C8.  For an input made of N blocks, each opened by a header             *)
(* diff --git a/<path> b/<path>, with pairwise distinct paths and no other *)
(* line that starts with the header prefix, the result has exactly N keys, *)
(* the paths, and the value of each is its block's lines, in order, each   *)
(* followed by a newline.  The code takes what follows the first " b/" of  *)
(* the header up to the next " b/", which is not the path when the path    *)
(* holds " b/" itself.                                                     *)
(***************************************************************************)
Terminated == ppc \in {"returned", "raised"}
IsHeaderLine(l) == StartsWith(l, HeaderPrefix)
HeaderPositions(ls) == {k \in 1..Len(ls) : IsHeaderLine(ls[k])}
\* the path of a header diff --git a/<p> b/<p>
HeaderPath(l) == CHOOSE p \in PathPool : l = Header(p)
WellFormedBlocks(ls) ==
  /\ ls # <<>> => IsHeaderLine(ls[1])
  /\ \A k \in HeaderPositions(ls) : \E p \in PathPool : ls[k] = Header(p)
  /\ \A j, k \in HeaderPositions(ls) : j # k => ls[j] # ls[k]
\* the last line of the block that the header at h opens
BlockEnd(ls, h) ==
  LET later == {k \in HeaderPositions(ls) : k > h}
  IN IF later = {} THEN Len(ls) ELSE (CHOOSE k \in later : \A j \in later : k <= j) - 1
\* the lines a..b of ls, each followed by a newline
RECURSIVE TextOf(_, _, _)
TextOf(ls, a, b) == IF a > b THEN <<>> ELSE ls[a] \o NewLine \o TextOf(ls, a + 1, b)
ExpectedEntries(ls) ==
  {[key |-> HeaderPath(ls[h]), value |-> TextOf(ls, h, BlockEnd(ls, h))] :
     h \in HeaderPositions(ls)}
C8_OneEntryPerBlock ==
  (Terminated /\ WellFormedBlocks(diff_lines)) =>
    /\ ppc = "returned"
    /\ Len(diff_by_file) = Cardinality(HeaderPositions(diff_lines))
    /\ Range(diff_by_file) = ExpectedEntries(diff_lines)

(***************************************************************************)
(* C9.  The malformed-diff error is raised exactly when the input is not   *)
(* empty and its first line does not start with "diff --git"; it is raised *)
(* at the first line and at no later one; the empty input returns the      *)
(* empty mapping.                                                          *)
(***************************************************************************)
FirstLineIsNoHeader == diff_lines # <<>> /\ ~IsHeaderLine(diff_lines[1])
C9_MalformedIffFirstLineIsNoHeader ==
  /\ perr = "MalformedDiff" =>
       /\ ppc = "raised"
       /\ FirstLineIsNoHeader
       /\ line_idx = 1
       /\ diff_by_file = <<>>
  /\ (Terminated /\ FirstLineIsNoHeader) => perr = "MalformedDiff"
  /\ (Terminated /\ diff_lines = <<>>) =>
       /\ ppc = "returned"
       /\ perr = "none"
       /\ diff_by_file = <<>>
  /\ (ppc = "loop" /\ line_idx > 1) => curr_file_path # <<>>

\* a hunk line opens the input: the error is raised although a header follows
C9_Witness ==
  /\ ppc = "raised"
  /\ perr = "MalformedDiff"
  /\ Len(diff_lines) >= 2
  /\ IsHeaderLine(diff_lines[2])

(***************************************************************************)
(* Change detection, lines 143-151.                                        *)
(***************************************************************************)
\* os.path.exists(openapi_spec) as it was when update_docs was called
SpecExistedAtStart == openapi_spec # None /\ disk_at_start[openapi_spec] # Absent
StagedDetection == mode = OPENAPI /\ ~SpecExistedAtStart
DetectionOps == {"git_add", "git_diff", "git_diff_cached"}
DetectionDone == pc \in {"check_diff", "write_pr_body", "return", "returned",
                         "exited", "completed", "mark_completed_raised",
                         "driver_raised"}

\* C11: git add of the spec file, followed by the staged diff of the spec
\* file, is run exactly when the mode is OpenAPI and the spec file did not
\* exist when update_docs started; otherwise the unrestricted working-tree
\* diff alone is run, and git add never.
C11_StagedDetectionIffNewSpecFile ==
  /\ \A i \in 1..Len(log) :
       /\ log[i].op = "git_add" =>
            /\ StagedDetection
            /\ log[i].path = openapi_spec
            /\ "git_diff" \notin OpsOfLog
            /\ (log[i].ok /\ i < Len(log)) =>
                  /\ log[i + 1].op = "git_diff_cached"
                  /\ log[i + 1].path = openapi_spec
            /\ (log[i].ok /\ i = Len(log)) => pc = "git_diff_cached"
       /\ log[i].op = "git_diff_cached" =>
            i > 1 /\ log[i - 1].op = "git_add" /\ log[i - 1].ok
       /\ log[i].op = "git_diff" =>
            /\ ~StagedDetection
            /\ log[i].path = None
            /\ OpsOfLog \cap {"git_add", "git_diff_cached"} = {}
  /\ \A op \in DetectionOps : CountOp(op) <= 1
  /\ DetectionDone =>
       /\ StagedDetection => {"git_add", "git_diff_cached"} \subseteq OpsOfLog
       /\ ~StagedDetection => "git_diff" \in OpsOfLog

\* the staged diff has answered for a spec file that is new, and written
C11_Witness ==
  /\ pc = "check_diff"
  /\ StagedDetection
  /\ LastLog.op = "git_diff_cached"
  /\ LastLog.path = SpecPath
  /\ diff = {SpecPath}

(***************************************************************************)
(* The driver, lines 225-236.                                              *)
(***************************************************************************)
\* C12: every line the driver appends to $GITHUB_ENV is AUTODOC_RUN_ID=<id>
\* with <id> the run_id that create_autodoc_run returned, and no line is
\* appended when update_docs raises.  After the bare return of line 155 the
\* code appends AUTODOC_RUN_ID=None.
C12_EnvLineCarriesRunId ==
  /\ \A k \in 1..Len(env_file) :
       /\ Registered
       /\ env_file[k] = EnvLine(<<run_id>>)
  /\ Len(env_file) <= 1
  /\ pc = "raised" => env_file = <<>>

(***************************************************************************)
(* RunLLMClient, client.py lines 50-155.                                   *)
(***************************************************************************)
\* C13: every method of RunLLMClient raises the error that carries the
\* status code and the response body if and only if the status of the
\* response is not 200, and returns a result only when the status is 200.
C13_RequestFailedIffNot200 ==
  client_out # Pending =>
    /\ client_out = Raised(RequestFailedMsg(client_resp))
         <=> client_resp.status_code # 200
    /\ client_out.kind = "returned" => client_resp.status_code = 200
    /\ client_out.kind \in {"returned", "raised"}

\* a 201 answer to mark_failed is raised as an error
C13_Witness ==
  /\ client_op = "mark_failed"
  /\ client_resp.status_code = 201
  /\ client_out.kind = "raised"
  /\ client_out.value[2] = "2"
  /\ client_out.value[6] = client_resp.text

(***************************************************************************)
(* The write-back of the loop, lines 120-141.                              *)
(***************************************************************************)
\* the writes of the per-file loop: each follows a generation call
LoopWrites == {i \in 2..Len(log) : log[i].op = "write" /\ IsGenerate(log[i - 1])}
ReadPaths == {log[i].path : i \in {k \in 1..Len(log) : log[k].op = "read"}}
WrittenPaths == {log[i].path : i \in LoopWrites}
\* the write at i puts the content generated at i - 1 into target
WritesGeneratedContentTo(i, target) ==
  /\ log[i].path = target
  /\ log[i].ok => log[i].content = log[i - 1].content
\* whatever the loop generated has been handed to a write, unless the print
\* of its cost raised (line 131) and ended the loop
EveryGenerationIsWritten ==
  \A i \in 1..Len(log) :
    (IsGenerate(log[i]) /\ log[i].ok) =>
      IF CalculateCostRaises(log[i].tokens)
      THEN i = Len(log) /\ pc \in {"except", "raised"}
      ELSE IF i < Len(log) THEN i + 1 \in LoopWrites ELSE pc = "write"
\* in inline mode the loop writes the source it generated for, and no other
InlineWritesTheSource ==
  mode = INLINE =>
    /\ \A i \in LoopWrites : WritesGeneratedContentTo(i, log[i - 1].path)
    /\ \A f \in AllFiles \ {PrBody} :
         disk[f] # disk_at_start[f] => f \in WrittenPaths /\ f \in ReadPaths

SimplePaths == {p \in PathPool : Find(p, BMarker) = 0}
SimpleHeaders(ls) ==
  \A k \in HeaderPositions(ls) : \E p \in SimplePaths : ls[k] = Header(p)
\* the headers of the path p
BlocksOf(ls, p) == {h \in HeaderPositions(ls) : ls[h] = Header(p)}
FirstAppearance(ls, p) == CHOOSE h \in BlocksOf(ls, p) : \A j \in BlocksOf(ls, p) : h <= j
\* the blocks of p from line h on, one after the other
RECURSIVE BlocksText(_, _, _)
BlocksText(ls, p, h) ==
  IF h > Len(ls) THEN <<>>
  ELSE (IF h \in BlocksOf(ls, p) THEN TextOf(ls, h, BlockEnd(ls, h)) ELSE <<>>)
         \o BlocksText(ls, p, h + 1)

\* C15: when a path has more than one header line in the input, the lines
\* of all its blocks are appended to one entry in input order, no entry is
\* overwritten or duplicated, and the keys are ordered by the first
\* appearance of each path.
C15_RepeatedPathSharesOneEntry ==
  (ppc = "returned" /\ SimpleHeaders(diff_lines)) =>
    /\ {diff_by_file[k].key : k \in 1..Len(diff_by_file)}
         = {p \in SimplePaths : BlocksOf(diff_lines, p) # {}}
    /\ \A j, k \in 1..Len(diff_by_file) :
         j < k =>
           /\ diff_by_file[j].key # diff_by_file[k].key
           /\ FirstAppearance(diff_lines, diff_by_file[j].key)
                < FirstAppearance(diff_lines, diff_by_file[k].key)
    /\ \A k \in 1..Len(diff_by_file) :
         diff_by_file[k].value = BlocksText(diff_lines, diff_by_file[k].key, 1)

\* x, then y, then x again with a hunk line: two entries, x first
C15_Witness ==
  /\ ppc = "returned"
  /\ diff_lines = <<Header(<<"x">>), Header(<<"y">>), Header(<<"x">>), <<"+", "n">>>>
  /\ Len(diff_by_file) = 2
  /\ diff_by_file[1].key = <<"x">>
  /\ diff_by_file[1].value =
       Header(<<"x">>) \o NewLine \o Header(<<"x">>) \o NewLine \o <<"+", "n">> \o NewLine
  /\ diff_by_file[2] = [key |-> <<"y">>, value |-> Header(<<"y">>) \o NewLine]

(***************************************************************************)
(* The token total, lines 111-131 and 158-169.                             *)
(***************************************************************************)
\* the tokens_used of the calls of log[1..k] that returned and satisfy the
\* operations ops
RECURSIVE TokensOf(_, _)
TokensOf(ops, k) ==
  IF k = 0 THEN NoTokens
  ELSE Plus(TokensOf(ops, k - 1),
            IF log[k].op \in ops /\ log[k].ok THEN log[k].tokens ELSE NoTokens)
GenerationTokens == TokensOf(GenerateOps, Len(log))
ExplanationTokens == TokensOf({"generate_explanation"}, Len(log))
PrBodyWritten == \E k \in 1..Len(log) : log[k].op = "write" /\ log[k].path = PrBody /\ log[k].ok

NamedAsConfigured == {k \in 1..Len(repos) : repos[k].name = RepoName}
\* _get_or_create_repo_id has the listing and has not yet handed its result on
HoldsListing ==
  /\ "list_repositories" \in OpsOfLog
  /\ log[1].ok
  /\ pc \in {"create_repository", "create_autodoc_run", "raised"}
  /\ "create_autodoc_run" \notin OpsOfLog

\* C17: create_repository is called if and only if no repository of the
\* listing is named exactly as configured; on a match the id of the first
\* matching repository is returned and no create call is made; at most one
\* create call is made per execution.
C17_CreateIffNoRepositoryMatches ==
  /\ CountOp("create_repository") <= 1
  /\ "create_repository" \in OpsOfLog => "list_repositories" \in OpsOfLog /\ log[1].ok
  /\ HoldsListing =>
       /\ NamedAsConfigured = {} <=>
            (pc = "create_repository" \/ "create_repository" \in OpsOfLog)
       /\ (pc = "create_repository") => "create_repository" \notin OpsOfLog
       /\ NamedAsConfigured # {} =>
            /\ pc = "create_autodoc_run"
            /\ \E k \in NamedAsConfigured :
                 /\ \A j \in NamedAsConfigured : k <= j
                 /\ repo_id = repos[k].id
       /\ (NamedAsConfigured = {} /\ pc = "create_autodoc_run") =>
            /\ LastLog = Event("create_repository", None, TRUE, 0, None)
            /\ repo_id \in CreatedRepoIds

\* two repositories carry the configured name: the id of the first is taken
C17_Witness ==
  /\ pc = "create_autodoc_run"
  /\ repos = <<[id |-> 2, name |-> RepoName], [id |-> 1, name |-> RepoName]>>
  /\ repo_id = 2
  /\ "create_repository" \notin OpsOfLog

(***************************************************************************)
(* Termination, lines 112-170.                                             *)
(***************************************************************************)
\* update_docs has returned or raised
UpdateDocsDone == pc \in {"returned", "raised", "exited", "completed",
                          "mark_completed_raised", "driver_raised"}
ReadsOf(p) == {k \in 1..Len(log) : log[k].op = "read" /\ log[k].path = p}
GenerationsOf(p) == {k \in 1..Len(log) : IsGenerate(log[k]) /\ log[k].path = p}

\* C18: if every remote call, file operation and git command returns or
\* raises, update_docs returns or raises in the end; the loop goes through
\* the keys once, forward, and reads and submits each path at most once.
C18_UpdateDocsTerminates ==
  /\ [][file_idx' \in {file_idx, file_idx + 1}]_vars
  /\ [](\A p \in Paths : Cardinality(ReadsOf(p)) <= 1 /\ Cardinality(GenerationsOf(p)) <= 1)
  /\ <>UpdateDocsDone

\* update_docs has returned after two paths, one passed over and one documented
C18_Witness ==
  /\ pc = "returned"
  /\ ret = <<run_id>>
  /\ Len(diff_by_file_path) = 2
  /\ Len(GeneratedPaths) = 1
  /\ file_idx = 3

(***************************************************************************)
(* Staging a spec file that was never written, lines 114-117 and 137-151.  *)
(***************************************************************************)
SpecWrittenBefore(i) ==
  \E k \in 1..(i - 1) : log[k].op = "write" /\ log[k].path = openapi_spec /\ log[k].ok
EveryPathSkipped == Registered /\ SupportedKeys = <<>>

\* C19: in OpenAPI mode with a spec file that did not exist at the start,
\* whenever git add stages the spec file, this execution has written it; an
\* execution that skips every submitted path does not end in a Failed
\* report.  In the code the loop writes nothing when it skips every path,
\* git add fails on the missing file, and the run is reported as Failed.
C19_StagedSpecFileWasWritten ==
  StagedDetection =>
    /\ \A i \in 1..Len(log) : log[i].op = "git_add" => SpecWrittenBefore(i)
    /\ EveryPathSkipped => FailedCalls = {}

(***************************************************************************)
(* pr-body.txt, lines 153-163.                                             *)
(***************************************************************************)
PrBodyWrites == {k \in 1..Len(log) : log[k].op = "write" /\ log[k].path = PrBody}
ExplanationCalls == {k \in 1..Len(log) : log[k].op = "generate_explanation"}

\* the write of pr-body.txt comes right after an explanation call that returned
AfterReturnedExplanation(k) ==
  /\ k > 1
  /\ log[k - 1].op = "generate_explanation"
  /\ log[k - 1].ok
NotWrittenWhenExplanationFails ==
  \A k \in ExplanationCalls :
    ~log[k].ok => PrBodyWrites = {} /\ disk[PrBody] = Absent /\ k = Len(log)

\* C20 as stated: pr-body.txt is written at most once, only after the
\* explanation call has returned, and whenever the file exists its content
\* is exactly the explanation text of that call; when the explanation call
\* fails it is not written.  In the code a write that fails after open()
\* leaves the file empty or with the beginning of the text.
C20_PrBodyIsExactlyTheExplanation ==
  /\ Cardinality(PrBodyWrites) <= 1
  /\ Cardinality(ExplanationCalls) <= 1
  /\ \A k \in PrBodyWrites :
       /\ AfterReturnedExplanation(k)
       /\ disk[PrBody] # Absent => disk[PrBody] = log[k - 1].content
  /\ PrBodyWrites = {} => disk[PrBody] = Absent
  /\ NotWrittenWhenExplanationFails

\* C20: pr-body.txt is opened for writing at most once, only after the
\* explanation call has returned; when that write succeeds the file holds
\* exactly the explanation text of that call, and when it fails the file is
\* missing, empty or holds the beginning of that text, up to all of it,
\* never another text; when the explanation call fails the file is not
\* written.
C20_PrBodyHoldsTheExplanation ==
  /\ Cardinality(PrBodyWrites) <= 1
  /\ Cardinality(ExplanationCalls) <= 1
  /\ \A k \in PrBodyWrites :
       /\ AfterReturnedExplanation(k)
       /\ log[k].ok =>
            /\ log[k].content = log[k - 1].content
            /\ disk[PrBody] = log[k - 1].content
       /\ ~log[k].ok =>
            /\ disk[PrBody] \in {Absent, log[k - 1].content} \cup PartsOf(log[k - 1].content)
            /\ k = Len(log)
  /\ PrBodyWrites = {} => disk[PrBody] = Absent
  /\ NotWrittenWhenExplanationFails

\* the explanation "c1" has been written to pr-body.txt
C20_Witness ==
  /\ pc = "return"
  /\ Len(log) > 1
  /\ log[Len(log) - 1] = Event("generate_explanation", None, TRUE, Tokens(1, 0), "c1")
  /\ LastLog = Event("write", PrBody, TRUE, 0, "c1")
  /\ disk[PrBody] = "c1"

====
